---- MODULE Spec2Model ----
(***************************************************************************)
(* A model of nxshock/simplelog: the Logger facade, the emit routine        *)
(* Logger.p, and the message model (msg.String, msg.fit).                   *)
(*                                                                          *)
(* Strings are sequences of one-character tokens.  A token stands for one   *)
(* unit of text as the library measures it:                                 *)
(*   "a" "b" ":" "|" "." letters, digits, punctuation: 1 rune, 1 byte,      *)
(*                       1 cell                                             *)
(*   " "                 a space (what strings.TrimSpace strips)            *)
(*   "w"                 a wide rune (CJK): 1 rune, 3 bytes, 2 cells        *)
(*   "m"                 a multi-byte narrow rune (U+2026): 1 rune,         *)
(*                       3 bytes, 1 cell                                    *)
(*   "e"                 an ANSI styling sequence as written by             *)
(*                       lipgloss.Style.Render: 0 cells                     *)
(*   "\n" "\r"           line terminators                                   *)
(***************************************************************************)
EXTENDS Integers, Sequences, FiniteSets, TLC

VARIABLES
    \* ---- Logger configuration (exported fields, fixed after construction)
    isTerminal,              \* Logger.isTerminal
    Level,                   \* Logger.Level
    MinProgressUpdatePeriod, \* Logger.MinProgressUpdatePeriod
    TimeFormat,              \* Logger.TimeFormat (a layout, <<>> disables)
    StripMessages,           \* Logger.StripMessages
    TrimMarker,              \* Logger.TrimMarker
    \* ---- Logger mutable state
    lastProgressLineWidth,   \* Logger.lastProgressLineWidth
    lastProgressUpdateTime,  \* Logger.lastProgressUpdateTime
    mu,                      \* Logger.mu: 0 when free, else the holder
    \* ---- environment
    now,                     \* the clock, as time.Now() last read it
    exited,                  \* 0 while the process runs, else its exit status
    callers,                 \* the threads that call into the logger
    api,                     \* the calls they make: <<entry point, level>>
    sizes,                   \* the sizes term.GetSize reports (0: it failed)
    recorded,                \* lastProgressLineWidth as the last Write left it
    lastTerm,                \* the terminator of the last line written, or ""
    \* ---- one call frame per thread
    th,
    \* ---- the message model exercised on its own
    mpc, m0, m, mWidth, mMarker, mStr

loggerVars == <<isTerminal, Level, MinProgressUpdatePeriod, TimeFormat,
                StripMessages, TrimMarker, lastProgressLineWidth,
                lastProgressUpdateTime, mu, now, exited,
                callers, api, sizes, recorded, lastTerm, th>>
msgVars == <<mpc, m0, m, mWidth, mMarker, mStr>>
vars == <<loggerVars, msgVars>>

Max(a, b) == IF a > b THEN a ELSE b
Min(a, b) == IF a < b THEN a ELSE b

----------------------------------------------------------------------------
(* Text measures.                                                          *)

\* Display cells of one token, as lipgloss.Width counts them.
Cells(c) == CASE c = "w" -> 2
              [] c = "e" -> 0
              [] OTHER -> 1

\* Bytes of one token in UTF-8, as Go's len(string) counts them.
Bytes(c) == CASE c = "w" -> 3
              [] c = "m" -> 3
              [] c = "e" -> 5
              [] OTHER -> 1

RECURSIVE Width(_)
\* lipgloss.Width: the rendered width of a string in cells.
Width(s) == IF s = <<>> THEN 0 ELSE Cells(Head(s)) + Width(Tail(s))

RECURSIVE ByteLen(_)
\* Go's len(s) on a string: its length in bytes.
ByteLen(s) == IF s = <<>> THEN 0 ELSE Bytes(Head(s)) + ByteLen(Tail(s))

\* len([]rune(s)): the number of code points (text bodies hold no "e").
RuneCount(s) == Len(s)

----------------------------------------------------------------------------
(* The message model: msg.String and msg.fit.                              *)

Msg(ts, pfx, text) == [TimeStamp |-> ts, Prefix |-> pfx, Text |-> text]

\* msg.String
String(msg) ==
    (IF msg.TimeStamp # <<>> THEN msg.TimeStamp \o <<" ">> ELSE <<>>)
    \o (IF msg.Prefix # <<>> THEN msg.Prefix \o <<" ">> ELSE <<>>)
    \o msg.Text

\* spaceLeft of msg.fit
spaceLeft(msg, width) ==
    LET spaceCount == IF msg.TimeStamp # <<>> THEN 1 ELSE 0
    IN  width - Width(msg.TimeStamp) - Width(msg.Prefix) - Width(msg.Text)
          - spaceCount

\* maxMessageWidth with no room left for the marker.
maxMessageWidth_noMarker(msg, width, trimMarker) ==
    Max(RuneCount(msg.Text) + spaceLeft(msg, width), 0)

\* maxMessageWidth of msg.fit: the marker is measured with len(trimMarker),
\* its length in bytes.
maxMessageWidth(msg, width, trimMarker) ==
    Max(RuneCount(msg.Text) + spaceLeft(msg, width) - ByteLen(trimMarker), 0)

\* msg.fit
fit(msg, width, trimMarker) ==
    IF spaceLeft(msg, width) >= 0
    THEN msg
    ELSE [msg EXCEPT !.Text =
            SubSeq(msg.Text, 1, maxMessageWidth(msg, width, trimMarker))
              \o trimMarker]

\* The message model at rest, while the logger runs.
NoMsg == Msg(<<>>, <<>>, <<>>)

MsgOff ==
    /\ mpc = "off"
    /\ m0 = NoMsg
    /\ m = NoMsg
    /\ mWidth = 0
    /\ mMarker = <<>>
    /\ mStr = <<>>

----------------------------------------------------------------------------
(* Levels, symbols, styles.                                                *)

LogLevelTrace == 0
LogLevelDebug == 1
LogLevelInfo == 2
LogLevelWarn == 3
LogLevelError == 4
LogLevelFatal == 5
LogLevelProgress == 9

\* The values a LogLevel argument takes.
Levels == {LogLevelTrace, LogLevelDebug, LogLevelInfo, LogLevelWarn,
           LogLevelError, LogLevelFatal, LogLevelProgress}

levelSymbol(logLevel) ==
    CASE logLevel = LogLevelTrace -> <<"T", "R", "C">>
      [] logLevel = LogLevelDebug -> <<"D", "B", "G">>
      [] logLevel = LogLevelInfo  -> <<"I", "N", "F">>
      [] logLevel = LogLevelWarn  -> <<"W", "R", "N">>
      [] logLevel = LogLevelError -> <<"E", "R", "R">>
      [] logLevel = LogLevelFatal -> <<"F", "T", "L">>
      [] OTHER -> <<"?", "?", "?">>

\* Logger.prefix: fmt.Sprintf("|%s|", levelSymbol(logLevel))
prefix(logLevel) == <<"|">> \o levelSymbol(logLevel) \o <<"|">>

\* The entries NewLogger puts in Logger.Styles (Info has none).
HasStyle(logLevel) ==
    logLevel \in {LogLevelTrace, LogLevelDebug, LogLevelWarn, LogLevelError,
                  LogLevelFatal, LogLevelProgress}

\* lipgloss.Style.Render with a foreground colour: the text between a
\* styling sequence and a reset.
Render(s) == <<"e">> \o s \o <<"e">>

RECURSIVE TrimLeft(_)
TrimLeft(s) == IF s # <<>> /\ Head(s) = " " THEN TrimLeft(Tail(s)) ELSE s

RECURSIVE TrimRight(_)
TrimRight(s) ==
    IF s # <<>> /\ s[Len(s)] = " " THEN TrimRight(SubSeq(s, 1, Len(s) - 1)) ELSE s

\* strings.TrimSpace
TrimSpace(s) == TrimRight(TrimLeft(s))

RECURSIVE Repeat(_, _)
\* strings.Repeat
Repeat(c, k) == IF k <= 0 THEN <<>> ELSE <<c>> \o Repeat(c, k - 1)

----------------------------------------------------------------------------
(* Time.                                                                   *)

MaxTime == 2
MaxPeriod == 2

\* The zero time.Time, the initial Logger.lastProgressUpdateTime.
ZeroTime == -1

\* time.Time.Sub: the difference, saturated at the largest Duration when
\* the other operand is the zero time (year 1).
Sub(t, u) == IF u = ZeroTime THEN MaxTime + MaxPeriod + 1 ELSE t - u

Digits == <<"0", "1", "2", "3", "4", "5", "6", "7", "8", "9">>

RECURSIVE Format(_, _)
\* time.Time.Format: the layout with its seconds field "5" replaced by the
\* time's, every other token copied.
Format(t, layout) ==
    IF layout = <<>> THEN <<>>
    ELSE (IF Head(layout) = "5" THEN <<Digits[(t % 10) + 1]>> ELSE <<Head(layout)>>)
           \o Format(t, Tail(layout))

defaultFileTimestampFormat == <<"d", " ", "5">>
defaultTerminalTimestampFormat == <<"5">>
defaultTrimMarker == <<".", ".", ".">>

\* Logger.timestamp
timestamp(t) ==
    IF TimeFormat = <<>> THEN <<>>
    ELSE IF ~isTerminal THEN Format(t, TimeFormat)
    ELSE Render(Format(t, TimeFormat))

\* Logger.getWidth, size being what term.GetSize reports (0 when it fails).
getWidth(size) == IF ~isTerminal THEN 0 ELSE size

\* RateLimited with <= for <: an update exactly one period after the last
\* one is dropped.
RateLimited_inclusive(timeStamp) ==
    /\ MinProgressUpdatePeriod > 0
    /\ Sub(timeStamp, lastProgressUpdateTime) <= MinProgressUpdatePeriod

\* The rate limiter's test in Logger.p.
RateLimited(timeStamp) ==
    /\ MinProgressUpdatePeriod > 0
    /\ Sub(timeStamp, lastProgressUpdateTime) < MinProgressUpdatePeriod

\* The level filter's test in Logger.p.
Filtered(logLevel) == logLevel < Level

\* BuildMsg with the fitting done on every sink, before the prefix is set.
BuildMsg_fitAlways(logLevel, s, timeStamp, size) ==
    LET text == IF StripMessages THEN TrimSpace(s) ELSE s
        m2 == fit(Msg(timestamp(timeStamp), <<>>, text), getWidth(size), TrimMarker)
    IN  IF isTerminal
        THEN [m2 EXCEPT
                !.TimeStamp = IF m2.TimeStamp # <<>> THEN Render(m2.TimeStamp) ELSE <<>>,
                !.Text = IF HasStyle(logLevel) THEN Render(m2.Text) ELSE m2.Text]
        ELSE [m2 EXCEPT !.Prefix = prefix(logLevel)]

\* The message Logger.p builds: timestamp, stripping, then fitting and
\* styling on a terminal, the level prefix otherwise.
BuildMsg(logLevel, s, timeStamp, size) ==
    LET text == IF StripMessages THEN TrimSpace(s) ELSE s
        m1 == Msg(timestamp(timeStamp), <<>>, text)
    IN  IF isTerminal
        THEN LET m2 == fit(m1, getWidth(size), TrimMarker)
             IN  [m2 EXCEPT
                    !.TimeStamp = IF m2.TimeStamp # <<>> THEN Render(m2.TimeStamp) ELSE <<>>,
                    !.Text = IF HasStyle(logLevel) THEN Render(m2.Text) ELSE m2.Text]
        ELSE [m1 EXCEPT !.Prefix = prefix(logLevel)]

\* Whether Logger.p pads the line: the sink is a terminal and the line is
\* narrower than the last progress line.
Overwrites(w) == isTerminal /\ w < lastProgressLineWidth

\* Padding without the bound by the terminal's width.
Padding_unbounded(p, w, T) == Max(p - w, 0)

\* The number of spaces Logger.p appends when it pads.
Padding(p, w, T) == Max(Min(p - w, T - w), 0)

\* The terminator Logger.p appends.
Terminator(logLevel) == IF logLevel = LogLevelProgress THEN "\r" ELSE "\n"

----------------------------------------------------------------------------
(* The entry points.                                                       *)

Threads == {1, 2}

PlainFns == {"Trace", "Debug", "Info", "Warn", "Error", "Fatal"}
LnFns == {"Traceln", "Debugln", "Infoln", "Warnln", "Errorln", "Fatalln"}
FFns == {"Tracef", "Debugf", "Infof", "Warnf", "Errorf", "Fatalf"}
WrapperFns == PlainFns \cup LnFns \cup FFns
LevelArgFns == {"Print", "Printf", "Println"}
FatalFns == {"Fatal", "Fatalln", "Fatalf"}
AllFns == WrapperFns \cup LevelArgFns \cup {"Progressf"}

Short == <<"a", "b">>
Long == <<" ", "a", "w", "b", "a", " ">>
Mid == <<"a", "b", "a", "b", "a", "b">>
Texts == {Short, Long}

\* A call is <<entry point, level argument, operand>>; the level argument
\* counts for Print, Printf and Println only.
AllCalls == ((WrapperFns \cup {"Progressf"}) \X {0} \X Texts)
              \cup ({"Print"} \X Levels \X Texts)
              \cup ({"Printf", "Println"} \X {LogLevelInfo, LogLevelProgress}
                      \X {Short})
              \cup {<<"Print", LogLevelInfo, Mid>>}
CoreCalls == {<<"Print", LogLevelInfo, Short>>,
              <<"Print", LogLevelProgress, Long>>,
              <<"Fatal", 0, Short>>, <<"Fatalln", 0, Short>>,
              <<"Fatalf", 0, Short>>}

\* The level each per-level wrapper hands to Print, Println or Printf.
PassedLevel(fn) ==
    CASE fn \in {"Trace", "Traceln"} -> LogLevelTrace
      [] fn \in {"Debug", "Debugln"} -> LogLevelDebug
      [] fn \in {"Info", "Infoln", "Tracef", "Debugf", "Infof"} -> LogLevelInfo
      [] fn \in {"Warn", "Warnln", "Warnf"} -> LogLevelWarn
      [] fn \in {"Error", "Errorln", "Errorf", "Fatalln"} -> LogLevelError
      [] fn \in {"Fatal", "Fatalf"} -> LogLevelFatal
      [] fn = "Progressf" -> LogLevelProgress

\* The string Print (fmt.Sprint), Printf and Progressf (fmt.Sprintf) and
\* Println (fmt.Sprintln less its last byte) hand to Logger.p, for one
\* string operand and no formatting verbs.
Sprintln(a) == a \o <<"\n">>
TextArg(fn, a) ==
    IF fn \in LnFns \cup {"Println"}
    THEN SubSeq(Sprintln(a), 1, Len(Sprintln(a)) - 1)
    ELSE a

\* Where a wrapper continues when Logger.p returns.
AfterP(fn) ==
    CASE fn = "Fatal" -> "f144"
      [] fn = "Fatalln" -> "f172"
      [] fn = "Fatalf" -> "f202"
      [] OTHER -> "ret"

Idle ==
    [pc |-> "idle", fn |-> "", logLevel |-> 0, s |-> <<>>, timeStamp |-> 0,
     fitW |-> 0, str |-> <<>>, w |-> 0, p |-> 0, T |-> 0, pad |-> 0,
     wn |-> 0, werr |-> FALSE, n |-> 0, err |-> FALSE, wrote |-> 0]

\* The frame of a call that starts.
Frame(fn, logLevel, a) ==
    [Idle EXCEPT !.fn = fn, !.logLevel = logLevel, !.s = TextArg(fn, a)]

\* Logger.p returns (n, err) to the wrapper that called it.
Returned(f, n, err) == [f EXCEPT !.pc = AfterP(f.fn), !.n = n, !.err = err]

Running == exited = 0

\* What term.GetSize reports when Logger.getWidth asks: the terminal may be
\* resized between any two queries, and 0 stands for a failed query.
Wide == 12
TermWidths == {0, 5, Wide}
Sizes == IF isTerminal THEN sizes ELSE {0}

confVars == <<isTerminal, Level, MinProgressUpdatePeriod, TimeFormat,
              StripMessages, TrimMarker, callers, api, sizes>>

\* A caller enters an entry point.  Progressf returns (0, nil) at once when
\* the sink is no terminal; Fatal goes for the lock first.
Call(t) ==
    /\ Running
    /\ t \in callers
    /\ th[t].pc = "idle"
    /\ \E c \in api :
         LET fn == c[1]
             a == c[3]
             lv == IF fn \in LevelArgFns THEN c[2] ELSE PassedLevel(fn)
         IN  th' = [th EXCEPT ![t] =
               IF fn = "Progressf" /\ ~isTerminal
               THEN [Frame(fn, lv, a) EXCEPT !.pc = "ret"]
               ELSE [Frame(fn, lv, a) EXCEPT
                       !.pc = IF fn = "Fatal" THEN "f142" ELSE "p243"]]
    /\ UNCHANGED <<confVars, lastProgressLineWidth, lastProgressUpdateTime,
                   mu, now, exited, recorded, lastTerm, msgVars>>

\* A lock that never waits.
CanLock_always == TRUE

\* sync.Mutex.Lock: whether it can proceed.
CanLock == mu = 0

\* Logger.Fatal: l.mu.Lock()
FatalLock(t) ==
    /\ Running
    /\ th[t].pc = "f142"
    /\ CanLock
    /\ mu' = t
    /\ th' = [th EXCEPT ![t].pc = "p243"]
    /\ UNCHANGED <<confVars, lastProgressLineWidth, lastProgressUpdateTime,
                   now, exited, recorded, lastTerm, msgVars>>

\* Logger.p: timeStamp := time.Now().  The clock never runs backwards.
P243(t) ==
    /\ Running
    /\ th[t].pc = "p243"
    /\ \E time \in now..MaxTime :
         /\ now' = time
         /\ th' = [th EXCEPT ![t].timeStamp = time, ![t].pc = "p245"]
    /\ UNCHANGED <<confVars, lastProgressLineWidth, lastProgressUpdateTime,
                   mu, exited, recorded, lastTerm, msgVars>>

\* Logger.p: the rate limiter's test; a limited Progress call returns.
P245(t) ==
    /\ Running
    /\ th[t].pc = "p245"
    /\ th' = [th EXCEPT ![t] =
         IF th[t].logLevel # LogLevelProgress THEN [@ EXCEPT !.pc = "p253"]
         ELSE IF RateLimited(th[t].timeStamp) THEN Returned(@, 0, FALSE)
         ELSE [@ EXCEPT !.pc = "p250"]]
    /\ UNCHANGED <<confVars, lastProgressLineWidth, lastProgressUpdateTime,
                   mu, now, exited, recorded, lastTerm, msgVars>>

\* Logger.p: l.lastProgressUpdateTime = timeStamp
P250(t) ==
    /\ Running
    /\ th[t].pc = "p250"
    /\ lastProgressUpdateTime' = th[t].timeStamp
    /\ th' = [th EXCEPT ![t].pc = "p253"]
    /\ UNCHANGED <<confVars, lastProgressLineWidth, mu, now,
                   exited, recorded, lastTerm, msgVars>>

\* Logger.p: the level filter; a filtered call returns (0, nil).
P253(t) ==
    /\ Running
    /\ th[t].pc = "p253"
    /\ th' = [th EXCEPT ![t] =
         IF Filtered(th[t].logLevel) THEN Returned(@, 0, FALSE)
         ELSE [@ EXCEPT !.pc = "p257"]]
    /\ UNCHANGED <<confVars, lastProgressLineWidth, lastProgressUpdateTime,
                   mu, now, exited, recorded, lastTerm, msgVars>>

\* Logger.p: l.mu.Lock()
P257(t) ==
    /\ Running
    /\ th[t].pc = "p257"
    /\ CanLock
    /\ mu' = t
    /\ th' = [th EXCEPT ![t].pc = "p260"]
    /\ UNCHANGED <<confVars, lastProgressLineWidth, lastProgressUpdateTime,
                   now, exited, recorded, lastTerm, msgVars>>

\* Logger.p: build, fit and style the message, join it, measure it.
P260(t) ==
    /\ Running
    /\ th[t].pc = "p260"
    /\ \E size \in Sizes :
         LET str == String(BuildMsg(th[t].logLevel, th[t].s, th[t].timeStamp, size))
         IN  th' = [th EXCEPT ![t].fitW = getWidth(size), ![t].str = str,
                              ![t].w = Width(str), ![t].pc = "p286"]
    /\ UNCHANGED <<confVars, lastProgressLineWidth, lastProgressUpdateTime,
                   mu, now, exited, recorded, lastTerm, msgVars>>

\* NextProgressWidth without the reset after padding.
NextProgressWidth_noReset(logLevel, w) ==
    IF logLevel = LogLevelProgress THEN w ELSE lastProgressLineWidth

\* The last progress width Logger.p leaves behind.
NextProgressWidth(logLevel, w) ==
    IF logLevel = LogLevelProgress THEN w
    ELSE IF Overwrites(w) THEN 0
    ELSE lastProgressLineWidth

\* Logger.p: pad over the last progress line, record this line's width if
\* it is a progress line, append the terminator.  The terminal's width is
\* read only when the line is padded.
P286(t) ==
    /\ Running
    /\ th[t].pc = "p286"
    /\ \E size \in IF Overwrites(th[t].w) THEN Sizes ELSE {0} :
         LET f == th[t]
             pad == IF Overwrites(f.w)
                    THEN Padding(lastProgressLineWidth, f.w, getWidth(size))
                    ELSE 0
         IN  /\ th' = [th EXCEPT
                   ![t].str = f.str \o Repeat(" ", pad) \o <<Terminator(f.logLevel)>>,
                   ![t].p = lastProgressLineWidth, ![t].T = getWidth(size),
                   ![t].pad = pad, ![t].pc = "p301"]
             /\ lastProgressLineWidth' = NextProgressWidth(f.logLevel, f.w)
    /\ UNCHANGED <<confVars, lastProgressUpdateTime, mu, now,
                   exited, recorded, lastTerm, msgVars>>

\* sync.Mutex.Unlock
Unlocked == 0

\* io.Writer.Write: the pair (n, err) it returns for the bytes of str, all
\* of them written or none and an error.
Write(str, ok) == <<IF ok THEN ByteLen(str) ELSE 0, ~ok>>

\* A return that drops Write's error.
PReturn_dropError(r) == <<r[1], FALSE>>

\* Logger.p: return l.Writer.Write(...), the pair handed on as it is.
PReturn(r) == r

\* Logger.p: l.Writer.Write([]byte(str)), which succeeds or fails, then the
\* deferred l.mu.Unlock() and the return of Write's result.
P301(t) ==
    /\ Running
    /\ th[t].pc = "p301"
    /\ \E ok \in BOOLEAN :
         LET r == Write(th[t].str, ok)
         IN  th' = [th EXCEPT ![t] =
               Returned([@ EXCEPT !.wrote = @ + 1, !.wn = r[1], !.werr = r[2]],
                        PReturn(r)[1], PReturn(r)[2])]
    /\ mu' = Unlocked
    /\ recorded' = lastProgressLineWidth
    /\ lastTerm' = Terminator(th[t].logLevel)
    /\ UNCHANGED <<confVars, lastProgressLineWidth, lastProgressUpdateTime,
                   now, exited, msgVars>>

\* A wrapper returns Logger.p's result to its caller.
Return(t) ==
    /\ Running
    /\ th[t].pc = "ret"
    /\ th' = [th EXCEPT ![t] = Idle]
    /\ UNCHANGED <<confVars, lastProgressLineWidth, lastProgressUpdateTime,
                   mu, now, exited, recorded, lastTerm, msgVars>>

\* Logger.Fatal: l.mu.Unlock(); os.Exit(1)
FatalExit(t) ==
    /\ Running
    /\ th[t].pc = "f144"
    /\ mu' = Unlocked
    /\ exited' = 1
    /\ th' = [th EXCEPT ![t].pc = "exit"]
    /\ UNCHANGED <<confVars, lastProgressLineWidth, lastProgressUpdateTime,
                   now, recorded, lastTerm, msgVars>>

\* Logger.Fatalln: f.Sync(); os.Exit(1)
FatallnExit(t) ==
    /\ Running
    /\ th[t].pc = "f172"
    /\ exited' = 1
    /\ th' = [th EXCEPT ![t].pc = "exit"]
    /\ UNCHANGED <<confVars, lastProgressLineWidth, lastProgressUpdateTime,
                   mu, now, recorded, lastTerm, msgVars>>

\* Logger.Fatalf: os.Exit(1)
FatalfExit(t) ==
    /\ Running
    /\ th[t].pc = "f202"
    /\ exited' = 1
    /\ th' = [th EXCEPT ![t].pc = "exit"]
    /\ UNCHANGED <<confVars, lastProgressLineWidth, lastProgressUpdateTime,
                   mu, now, recorded, lastTerm, msgVars>>

\* One step of thread t, whatever it is.
Step(t) ==
    \/ Call(t) \/ FatalLock(t) \/ P243(t) \/ P245(t) \/ P250(t) \/ P253(t)
    \/ P257(t) \/ P260(t) \/ P286(t) \/ P301(t) \/ Return(t)
    \/ FatalExit(t) \/ FatallnExit(t) \/ FatalfExit(t)

Next ==
    \/ \E t \in Threads : Call(t)
    \/ \E t \in Threads : FatalLock(t)
    \/ \E t \in Threads : P243(t)
    \/ \E t \in Threads : P245(t)
    \/ \E t \in Threads : P250(t)
    \/ \E t \in Threads : P253(t)
    \/ \E t \in Threads : P257(t)
    \/ \E t \in Threads : P260(t)
    \/ \E t \in Threads : P286(t)
    \/ \E t \in Threads : P301(t)
    \/ \E t \in Threads : Return(t)
    \/ \E t \in Threads : FatalExit(t)
    \/ \E t \in Threads : FatallnExit(t)
    \/ \E t \in Threads : FatalfExit(t)

\* The states NewLogger and the assignments to the exported fields leave:
\* the minimum level is the default, Progress (which passes only progress
\* lines) or a value above every level.
MinLevels == {LogLevelInfo, LogLevelProgress, LogLevelProgress + 1}
Periods == {0, MaxPeriod}

NewLogger ==
    /\ isTerminal \in BOOLEAN
    /\ Level \in MinLevels
    /\ MinProgressUpdatePeriod \in Periods
    /\ TimeFormat \in {<<>>, IF isTerminal THEN defaultTerminalTimestampFormat
                                        ELSE defaultFileTimestampFormat}
    /\ StripMessages \in BOOLEAN
    /\ TrimMarker = defaultTrimMarker
    /\ lastProgressLineWidth = 0
    /\ lastProgressUpdateTime = ZeroTime
    /\ mu = 0
    /\ now = 0
    /\ exited = 0
    /\ recorded = 0
    /\ lastTerm = ""
    /\ th = [t \in Threads |-> Idle]

\* One caller, every entry point.
InitSeq ==
    /\ NewLogger
    /\ callers = {1}
    /\ api = AllCalls
    /\ sizes = TermWidths
    /\ MsgOff

SpecSeq == InitSeq /\ [][Next]_vars

\* Every thread calls: a line, a progress line and the three fatal calls,
\* on a logger with the default level or the level that passes progress
\* lines only, the rate limiter on, the default time format and no
\* stripping, and on a terminal that keeps its size.
Init ==
    /\ NewLogger
    /\ Level \in {LogLevelInfo, LogLevelProgress}
    /\ MinProgressUpdatePeriod = MaxPeriod
    /\ StripMessages = FALSE
    /\ TimeFormat # <<>>
    /\ callers = Threads
    /\ api = CoreCalls
    /\ sizes = {Wide}
    /\ MsgOff

Spec == Init /\ [][Next]_vars

----------------------------------------------------------------------------
(* The message model on its own: inputs drawn from bounded sets, then fit  *)
(* and String applied.                                                     *)

MaxBody == 4
MaxFitWidth == 6

RECURSIVE SeqsUpTo(_, _)
SeqsUpTo(S, n) ==
    IF n = 0 THEN {<<>>}
    ELSE LET shorter == SeqsUpTo(S, n - 1)
         IN  shorter \cup {Append(s, c) : s \in {x \in shorter : Len(x) = n - 1}, c \in S}

BodyChars == {"a", "w"}
Bodies == SeqsUpTo(BodyChars, MaxBody)
TimeStamps == {<<>>, <<"1">>, <<"e", "1", "2", "e">>}
Prefixes == {<<>>, <<"|", "I", "|">>}
Markers == {<<>>, <<".">>, <<".", ".", ".">>, <<"m">>}

\* A body of sixteen one-cell characters, to be fitted to ten cells.
Body16 == <<"0", "1", "2", "3", "4", "5", "6", "7", "8", "9",
            "A", "B", "C", "D", "E", "F">>

LoggerOff ==
    /\ isTerminal = FALSE
    /\ Level = 0
    /\ MinProgressUpdatePeriod = 0
    /\ TimeFormat = <<>>
    /\ StripMessages = FALSE
    /\ TrimMarker = <<>>
    /\ lastProgressLineWidth = 0
    /\ lastProgressUpdateTime = 0
    /\ mu = 0
    /\ now = 0
    /\ exited = 0
    /\ callers = {}
    /\ api = {}
    /\ sizes = {}
    /\ recorded = 0
    /\ lastTerm = ""
    /\ th = <<>>

InitMsg ==
    /\ LoggerOff
    /\ mpc = "new"
    /\ m0 \in {Msg(ts, pfx, text) : ts \in TimeStamps, pfx \in Prefixes,
                                     text \in Bodies \cup {Body16}}
    /\ m = m0
    /\ mWidth \in 0..MaxFitWidth \cup {10}
    /\ mMarker \in Markers
    /\ mStr = <<>>

\* m.fit(width, trimMarker)
MsgFit ==
    /\ mpc = "new"
    /\ m' = fit(m, mWidth, mMarker)
    /\ mpc' = "fitted"
    /\ UNCHANGED <<m0, mWidth, mMarker, mStr, loggerVars>>

\* m.String()
MsgString ==
    /\ mpc \in {"new", "fitted"}
    /\ mStr' = String(m)
    /\ mpc' = IF mpc = "new" THEN "joined" ELSE "fitjoined"
    /\ UNCHANGED <<m0, m, mWidth, mMarker, loggerVars>>

NextMsg == MsgFit \/ MsgString

SpecMsg == InitMsg /\ [][NextMsg]_vars

----------------------------------------------------------------------------
(* Properties of the logger.                                               *)

\* The positions inside Logger.p, and those under its lock.
PPcs == {"p243", "p245", "p250", "p253", "p257", "p260", "p286", "p301"}
LockedPcs == {"p260", "p286", "p301"}

\* Thread t is between a Lock and the Unlock that follows it: inside
\* Logger.p's critical section, or inside Logger.Fatal's.
Holds(t) ==
    \/ th[t].pc \in LockedPcs
    \/ th[t].fn = "Fatal" /\ th[t].pc \in (PPcs \ LockedPcs) \cup {"f144"}

\* Logger.p has returned to the wrapper in thread t.
AfterPPcs == {"ret", "f144", "f172", "f202", "exit"}

\* The line in str (terminator included) is the w-cell line, then exactly
\* k spaces, then the terminator.
PaddedBy(str, w, k) ==
    /\ Len(str) >= k + 1
    /\ \A i \in (Len(str) - k)..(Len(str) - 1) : str[i] = " "
    /\ Width(SubSeq(str, 1, Len(str) - 1 - k)) = w
    /\ k >= 0

\* C1: a call to Fatal, Fatalf or Fatalln on a logger whose lock is free
\* always goes on to process exit with a non-zero status after exactly one
\* attempted write (stated for the loggers whose level filter passes Error
\* and Fatal lines): the call is never stuck before its exit, and at its
\* exit one write has been attempted.
C1_FatalCallReachesExit ==
    \A t \in Threads :
      (th[t].fn \in FatalFns /\ th[t].pc # "idle" /\ Level <= LogLevelError) =>
        /\ th[t].pc # "exit" => ENABLED Step(t)
        /\ th[t].pc = "exit" => exited > 0 /\ th[t].wrote = 1

\* C2: an emit of a level below the minimum level returns (0, nil), writes
\* nothing and leaves the last progress width, the last progress update
\* time and the lock as they were, Progress included.
C2_FilteredEmitChangesNothing ==
    [][\A t \in Threads :
         (th[t].pc \in PPcs /\ th[t].logLevel < Level /\ th'[t] # th[t]) =>
           /\ lastProgressLineWidth' = lastProgressLineWidth
           /\ lastProgressUpdateTime' = lastProgressUpdateTime
           /\ mu' = mu
           /\ th'[t].wrote = 0
           /\ th'[t].pc \notin PPcs => th'[t].n = 0 /\ ~th'[t].err]_vars

\* A Progress emit of the one caller, with the rate limiter on.
C3_Case(t) ==
    /\ callers = {t}
    /\ MinProgressUpdatePeriod > 0
    /\ th[t].logLevel = LogLevelProgress

\* The emit's captured time is less than a period after the last accepted
\* progress emit (there is one).
C3_TooSoon(t) ==
    /\ lastProgressUpdateTime # ZeroTime
    /\ th[t].timeStamp - lastProgressUpdateTime < MinProgressUpdatePeriod

\* C3: with a period P > 0 and one caller, a Progress emit whose captured
\* time is less than P after the last accepted one is rejected: it returns
\* (0, nil), writes nothing and leaves the last progress update time and
\* width alone.  Every other one, the first included, is accepted and sets
\* the last progress update time to its captured time, and nothing else
\* ever sets that time.
C3_RateLimit ==
    /\ [](\A t \in Threads :
            (C3_Case(t) /\ th[t].pc \in {"p253", "p257", "p260", "p286", "p301"})
              => lastProgressUpdateTime = th[t].timeStamp)
    /\ [][\A t \in Threads :
            /\ (C3_Case(t) /\ th[t].pc = "p245" /\ th'[t].pc # "p245") =>
                 IF C3_TooSoon(t)
                 THEN /\ th'[t].pc = AfterP(th[t].fn)
                      /\ th'[t].n = 0 /\ ~th'[t].err /\ th'[t].wrote = 0
                      /\ lastProgressUpdateTime' = lastProgressUpdateTime
                      /\ lastProgressLineWidth' = lastProgressLineWidth
                 ELSE th'[t].pc = "p250"
            /\ (C3_Case(t) /\ th[t].pc = "p250" /\ th'[t].pc # "p250") =>
                 lastProgressUpdateTime' = th[t].timeStamp
            /\ (callers = {t} /\ lastProgressUpdateTime' # lastProgressUpdateTime) =>
                 th[t].pc = "p250" /\ th[t].logLevel = LogLevelProgress]_vars

\* C3's case: a Progress emit was rejected for coming too soon, after an
\* accepted one.
C3_Witness ==
    \E t \in Threads :
      /\ C3_Case(t) /\ C3_TooSoon(t)
      /\ th[t].pc = "ret" /\ th[t].wrote = 0 /\ Level = LogLevelInfo
      /\ th[t].timeStamp > lastProgressUpdateTime

\* The line thread t is about to write follows a progress line of width
\* recorded, is no progress line, is narrower, and the terminal is at least
\* as wide as the progress line.
C4_Case(t) ==
    /\ isTerminal
    /\ th[t].pc = "p301"
    /\ lastTerm = "\r"
    /\ th[t].logLevel # LogLevelProgress
    /\ th[t].w < recorded
    /\ th[t].T >= recorded

\* C4: on a terminal at least p wide, the non-progress line of width w < p
\* that follows a progress line of width p is written with exactly p - w
\* spaces before its newline and leaves the last progress width 0, and the
\* line after such a line is written with no padding.
C4_OverwriteOnce ==
    \A t \in Threads :
      /\ C4_Case(t) =>
           /\ th[t].pad = recorded - th[t].w
           /\ PaddedBy(th[t].str, th[t].w, recorded - th[t].w)
           /\ th[t].str[Len(th[t].str)] = "\n"
           /\ lastProgressLineWidth = 0
      /\ (isTerminal /\ th[t].pc = "p301" /\ lastTerm = "\n" /\ recorded = 0) =>
           /\ th[t].pad = 0
           /\ PaddedBy(th[t].str, th[t].w, 0)

\* C4's case: a padded line about to be written.
C4_Witness == \E t \in Threads : C4_Case(t) /\ th[t].pad > 0

\* C4's third line: an emit about to write after a line that was padded
\* and left the last progress width 0.
C4_WitnessThird ==
    \E t \in Threads :
      isTerminal /\ th[t].pc = "p301" /\ lastTerm = "\n" /\ recorded = 0
        /\ th[t].logLevel = LogLevelProgress

Clamp(x, lo, hi) == Max(lo, Min(x, hi))

\* C5: on a terminal, with w the line's width, p the last progress width
\* and T the terminal width read when padding, the line gets
\* clamp(p - w, 0, T - w) spaces: never a negative number, never past
\* max(w, T), and at least min(p, T) cells are covered when w < p.  (The
\* width is read only when w < p; otherwise the clamp is 0 whatever T is.)
C5_PaddingIsClamped ==
    \A t \in Threads :
      (isTerminal /\ th[t].pc = "p301") =>
        LET w == th[t].w
            p == th[t].p
            T == th[t].T
            pad == th[t].pad
        IN  /\ IF w < p THEN pad = Clamp(p - w, 0, T - w)
                        ELSE \A U \in TermWidths : pad = Clamp(p - w, 0, U - w)
            /\ PaddedBy(th[t].str, w, pad)
            /\ pad >= 0
            /\ w < p => w + pad <= Max(w, T)
            /\ w < p => w + pad >= Min(p, T)

\* C5's case: the terminal's width bounds the padding.
C5_Witness ==
    \E t \in Threads :
      /\ isTerminal /\ th[t].pc = "p301"
      /\ th[t].w < th[t].T /\ th[t].T < th[t].p
      /\ th[t].pad = th[t].T - th[t].w

\* C6: at most one thread is between a Lock and its Unlock; what a line is
\* padded by is computed from the last progress width as the line written
\* just before left it; and what is written is one whole line, ended by
\* its only terminator.
C6_EmitsAreSerialized ==
    /\ Cardinality({t \in Threads : Holds(t)}) <= 1
    /\ \A t \in Threads :
         /\ th[t].pc = "p286" => lastProgressLineWidth = recorded
         /\ th[t].pc = "p301" => th[t].p = recorded
         /\ th[t].wrote > 0 =>
              /\ th[t].str[Len(th[t].str)] = Terminator(th[t].logLevel)
              /\ \A i \in 1..(Len(th[t].str) - 1) : th[t].str[i] \notin {"\r", "\n"}

\* C6's case: one thread is about to write its padded line while the
\* other waits for the lock.
C6_Witness ==
    \E t, u \in Threads :
      /\ th[t].pc = "p301" /\ th[t].pad > 0
      /\ th[u].pc = "p257" /\ th[u].fn # "Fatal"

\* C7: on a sink that is no terminal, no line written ends with a carriage
\* return, whatever entry point and level argument wrote it, and Progressf
\* returns (0, nil) without writing.
C7_NoProgressLineInFile ==
    ~isTerminal =>
      \A t \in Threads :
        /\ th[t].wrote > 0 => th[t].str[Len(th[t].str)] # "\r"
        /\ (th[t].fn = "Progressf" /\ th[t].pc = "ret") =>
             th[t].n = 0 /\ ~th[t].err /\ th[t].wrote = 0

\* The level a per-level wrapper's name states.
NamedLevel(fn) ==
    CASE fn \in {"Trace", "Traceln", "Tracef"} -> LogLevelTrace
      [] fn \in {"Debug", "Debugln", "Debugf"} -> LogLevelDebug
      [] fn \in {"Info", "Infoln", "Infof"} -> LogLevelInfo
      [] fn \in {"Warn", "Warnln", "Warnf"} -> LogLevelWarn
      [] fn \in {"Error", "Errorln", "Errorf"} -> LogLevelError
      [] fn \in {"Fatal", "Fatalln", "Fatalf"} -> LogLevelFatal

\* str holds sub.
Contains(str, sub) ==
    \E i \in 1..(Len(str) - Len(sub) + 1) : SubSeq(str, i, i + Len(sub) - 1) = sub

\* C8: every per-level wrapper emits at the level its name states; hence
\* with minimum level Info no Trace* or Debug* call writes, and on a sink
\* that is no terminal every line a Fatal* call writes carries |FTL|.
C8_WrappersEmitAtNamedLevel ==
    \A t \in Threads :
      (th[t].fn \in WrapperFns /\ th[t].pc # "idle") =>
        /\ th[t].logLevel = NamedLevel(th[t].fn)
        /\ (Level = LogLevelInfo
              /\ NamedLevel(th[t].fn) \in {LogLevelTrace, LogLevelDebug}) =>
             th[t].wrote = 0
        /\ (~isTerminal /\ th[t].fn \in FatalFns /\ th[t].wrote > 0) =>
             Contains(th[t].str, <<"|", "F", "T", "L", "|">>)

\* The message Logger.p has built in thread t's call when it calls msg.fit.
Unfitted(t) ==
    Msg(timestamp(th[t].timeStamp), <<>>,
        IF StripMessages THEN TrimSpace(th[t].s) ELSE th[t].s)

\* C11: Logger.p returns exactly the pair its one Write returned, and
\* (0, nil) when it wrote nothing; rate limiting, level filtering and
\* fitting never produce an error and never abort the call (the slice
\* msg.fit takes is within the body for every width, 0 included, and the
\* count of padding spaces is never negative); and after a Write that
\* returned an error the lock is free, so that the one caller's next emit
\* takes it.
C11_OnlyWriteErrorsAreReturned ==
    \A t \in Threads :
      /\ th[t].wrote <= 1
      /\ (th[t].pc \in AfterPPcs /\ th[t].wrote = 1) =>
           th[t].n = th[t].wn /\ th[t].err = th[t].werr
      /\ (th[t].pc \in AfterPPcs /\ th[t].wrote = 0) =>
           th[t].n = 0 /\ ~th[t].err
      /\ (isTerminal /\ th[t].pc \in LockedPcs) =>
           \A size \in Sizes :
             spaceLeft(Unfitted(t), size) < 0 =>
               maxMessageWidth(Unfitted(t), size, TrimMarker)
                 \in 0..RuneCount(Unfitted(t).Text)
      /\ th[t].pc = "p301" => th[t].pad >= 0
      /\ (callers = {t} /\ th[t].err) => mu = 0
      /\ (callers = {t} /\ th[t].pc = "p257" /\ th[t].fn # "Fatal") =>
           ENABLED P257(t)

\* C11's case: on a terminal whose width query gave 0, a body shorter than
\* the trim marker was cut down to the marker, and the Write of the line
\* returned an error, which the call returned.
C11_Witness ==
    \E t \in Threads :
      /\ isTerminal /\ th[t].pc = "ret" /\ th[t].wrote = 1
      /\ th[t].fitW = 0 /\ Len(th[t].s) < Len(TrimMarker)
      /\ Contains(th[t].str, TrimMarker)
      /\ th[t].err /\ mu = 0

\* The bytes of a line of the given level, text and captured time on a
\* sink that is no terminal, from the configuration alone: the formatted
\* time, the level's prefix, the whole text (stripped if the logger
\* strips), a newline.
C12_Line(logLevel, s, timeStamp) ==
    (IF TimeFormat = <<>> THEN <<>> ELSE Format(timeStamp, TimeFormat) \o <<" ">>)
      \o prefix(logLevel) \o <<" ">>
      \o (IF StripMessages THEN TrimSpace(s) ELSE s)
      \o <<"\n">>

\* C12: on a sink that is no terminal, the bytes a non-progress emit
\* writes are determined by its level, its text, its captured time and the
\* configuration, whatever was emitted before: no padding, no truncation.
C12_FileOutputIgnoresHistory ==
    \A t \in Threads :
      (~isTerminal /\ th[t].pc = "p301" /\ th[t].logLevel # LogLevelProgress) =>
        /\ th[t].str = C12_Line(th[t].logLevel, th[t].s, th[t].timeStamp)
        /\ th[t].pad = 0

\* C12's case: a non-progress line about to be written to a sink that is
\* no terminal, right after a wider progress line was written to it.
C12_Witness ==
    \E t \in Threads :
      /\ ~isTerminal /\ th[t].pc = "p301" /\ th[t].logLevel # LogLevelProgress
      /\ lastTerm = "\r" /\ th[t].w < recorded

\* Thread t's Progress emit has passed the rate limiter: it is on its way
\* to its Write, or back from it.
C14_Accepted(t) ==
    /\ th[t].logLevel = LogLevelProgress
    /\ \/ th[t].pc \in {"p250", "p253", "p257", "p260", "p286", "p301"}
       \/ th[t].pc = "ret" /\ th[t].wrote = 1

\* C14: with a period P > 0 and several threads emitting concurrently,
\* the rate limiter's test and update are atomic: two accepted Progress
\* emits have captured times at least P apart, and the last progress
\* update time never moves backwards.
C14_RateLimitIsAtomic ==
    /\ [](MinProgressUpdatePeriod > 0 =>
            \A t, u \in Threads :
              (t # u /\ C14_Accepted(t) /\ C14_Accepted(u)) =>
                \/ th[t].timeStamp - th[u].timeStamp >= MinProgressUpdatePeriod
                \/ th[u].timeStamp - th[t].timeStamp >= MinProgressUpdatePeriod)
    /\ [][lastProgressUpdateTime' >= lastProgressUpdateTime]_vars

\* C15: on a terminal, padding goes only to the line written right after
\* a progress line: once a non-progress line of any width has been
\* written, the recorded last progress width is 0 and the next line is
\* not padded.
C15_PaddingOnlyAfterProgress ==
    (isTerminal /\ lastTerm = "\n") =>
      /\ recorded = 0
      /\ \A t \in Threads : th[t].pc = "p301" => th[t].pad = 0

\* Every character of s takes one cell.
SingleCell(s) == \A i \in 1..Len(s) : Cells(s[i]) = 1

\* msg.fit cut the body of thread t's line.
C16_Trimmed(t) == spaceLeft(Unfitted(t), th[t].fitW) < 0

\* Thread t is about to write a line of one-cell characters on a terminal
\* whose width, at the fitting and (when it is read again) at the padding,
\* is the same T >= width(timestamp) + 1 + length(trim marker).
C16_Case(t) ==
    /\ isTerminal /\ th[t].pc = "p301"
    /\ SingleCell(th[t].s) /\ SingleCell(TrimMarker)
    /\ th[t].fitW >= Width(timestamp(th[t].timeStamp)) + 1 + Len(TrimMarker)
    /\ th[t].w < th[t].p => th[t].T = th[t].fitW

C16_WitnessPadded ==
    \E t \in Threads :
      /\ C16_Case(t) /\ th[t].pad > 0
      /\ th[t].w + th[t].pad = th[t].fitW

\* C17: under concurrent emits, lines reach the sink in the order of the
\* times their emits captured: an emit holding the lock on its way to its
\* Write has captured a time no earlier than that of any line already
\* written.
C17_WritesFollowCapturedTimes ==
    \A t, u \in Threads :
      (t # u /\ th[t].pc \in LockedPcs
         /\ th[u].wrote = 1 /\ th[u].pc \in AfterPPcs) =>
        th[u].timeStamp <= th[t].timeStamp

----------------------------------------------------------------------------
(* Properties of the message model, checked under SpecMsg.                 *)

\* The fields of a message that are not empty, in order.
RECURSIVE NonEmpty(_)
NonEmpty(fields) ==
    IF fields = <<>> THEN <<>>
    ELSE (IF Head(fields) # <<>> THEN <<Head(fields)>> ELSE <<>>)
           \o NonEmpty(Tail(fields))

\* Strings joined with exactly one space between consecutive ones.
RECURSIVE JoinWithSpace(_)
JoinWithSpace(fields) ==
    IF fields = <<>> THEN <<>>
    ELSE IF Len(fields) = 1 THEN fields[1]
    ELSE fields[1] \o <<" ">> \o JoinWithSpace(Tail(fields))

\* C9: for every combination of empty and non-empty timestamp, prefix and
\* body, msg.String yields exactly the non-empty fields in the order
\* timestamp, prefix, body with one space between consecutive ones: no
\* leading, trailing or double space.
C9_JoinHasNoDanglingSeparator ==
    mpc = "joined" =>
      mStr = JoinWithSpace(NonEmpty(<<m0.TimeStamp, m0.Prefix, m0.Text>>))

\* spaceLeft as C10 states it.
C10_spaceLeft ==
    mWidth - Width(m0.TimeStamp) - Width(m0.Prefix) - Width(m0.Text)
      - (IF m0.TimeStamp # <<>> THEN 1 ELSE 0)

\* C10: msg.fit leaves the message unchanged when spaceLeft >= 0, and
\* otherwise cuts the body to its first
\* max(0, character_count(body) + spaceLeft - character_count(M)) code
\* points and appends the marker M, for every marker, timestamp and prefix
\* unchanged.
C10_FitCutsByMarkerCharacters ==
    mpc = "fitted" =>
      IF C10_spaceLeft >= 0
      THEN m = m0
      ELSE /\ m.Text = SubSeq(m0.Text, 1,
                          Max(0, RuneCount(m0.Text) + C10_spaceLeft - RuneCount(mMarker)))
                         \o mMarker
           /\ m.TimeStamp = m0.TimeStamp
           /\ m.Prefix = m0.Prefix

\* C13: fitting the message with empty timestamp, empty prefix and the
\* sixteen-character body "0123456789ABCDEF" to width 10 with the marker
\* "..." keeps 0 characters of the body: the fitted body is the marker.
C13_FitLeavesOnlyMarker ==
    (mpc = "fitted" /\ m0 = Msg(<<>>, <<>>, Body16) /\ mWidth = 10
       /\ mMarker = defaultTrimMarker) =>
      m.Text = defaultTrimMarker

====
